---------------------------- MODULE Spec2Model ----------------------------
(***************************************************************************)
(* A model of the seed-assisted gossip overlay of src/seed.py and          *)
(* src/peer.py.                                                            *)
(*                                                                         *)
(* Seed side: wire texts are sequences of one-character strings, so that   *)
(* the slicing, splitting and joining the seed does on them is computed.   *)
(* Each inbound session of the seed is a thread of manage_connection;      *)
(* the thread can be preempted between the append to self.peers and the    *)
(* join that builds the reply, so a registration is two steps.             *)
(*                                                                         *)
(* Peer side: a node's address stands for the node, and a message is a     *)
(* record of its fields. The threads of a node (one per inbound session,   *)
(* the failure detector, the gossip loop) share connected_peers and        *)
(* message_list without a lock; a handler is split where it can be         *)
(* preempted between a test of the shared list and the update that         *)
(* depends on it.                                                          *)
(*                                                                         *)
(* Bootstrap: addresses are texts, as the seeds hand them out; a node      *)
(* queries its seeds in turn, then tries its candidates one by one, and    *)
(* listens only when that is over.                                         *)
(*                                                                         *)
(* One specification per part of the protocol: SeedSpec (the registry),    *)
(* HandshakeSpec (inbound handshakes), LivenessSpec (the failure detector  *)
(* beside the listener), FloodSpec and FloodAnySpec (gossip over symmetric *)
(* and over arbitrary tables), BootstrapSpec (nodes joining) and JoinSpec  *)
(* (one node joining, with fair scheduling).                               *)
(***************************************************************************)
EXTENDS Naturals, Integers, Sequences, FiniteSets, Bags, TLC

VARIABLES
    \* ---- seed.py: SeedNode ----
    peers,          \* self.peers: the RegisteredPeerList, a list of address texts
    seedPc,         \* per inbound session: position of its manage_connection thread
    seedHost,       \* per inbound session: address[0], the host the seed observed
    peer_address,   \* per inbound session: the local peer_address of the handler
    reply,          \* per inbound session: the last text sent back on the connection
    seedBudget,     \* messages the environment may still send to the seed
    regLog,         \* history: the addresses of the registrants, in handling order
    onlyRegs,       \* history: every message handled so far was "<ip>:<port>"
    overlapped,     \* history: some message was received while another session
                    \* was between its append and its reply
    \* ---- peer.py: PeerNode, one per node ----
    connected_peers,    \* self.connected_peers: the Membership Table, a list of Peer
    message_list,       \* self.message_list: the Digest Cache, a list of digests
    connect_seed_addr,  \* self.connect_seed_addr: the seeds selected at bootstrap
    sessions,           \* inbound connections with an unread or half-handled message:
                        \* a bag of [to, msg, pc], one peer_to_peer_connection
                        \* thread each
    liveIdx,            \* liveness_test: 0 while asleep, else the position of the
                        \* list iterator of "for peer in self.connected_peers"
    gossipSeq,          \* gossip: the number of loop iterations done
    delivered,          \* the "received gossip message" log lines, a bag of payloads
    deadSent,           \* per seed: the "Dead Node" messages sent to it, a bag
    alive,              \* the nodes that accept connections now
    seedUp,             \* the seeds that accept connections now
    reqBudget,          \* connect requests the other nodes may still send
    gossipBudget,       \* gossip messages that may still be originated
    lastEvicted,        \* history: failedInARow of the record evicted last, at
                        \* its eviction; 0 before any eviction
    lastReset,          \* history: failedInARow of the record that replied last,
                        \* before that reply
    unprobed,           \* history: the addresses of the records that were in the
                        \* table when the current cycle of liveness_test began
                        \* and have not been probed in it, a bag
    \* ---- peer.py: PeerNode.__init__, the bootstrap of each node ----
    bootPc,             \* the position of __init__: "seeds" (the loop of
                        \* connect_seeds), "connect" and "await" (the loop of
                        \* start_peer_connection), "jobs" (initialize_threads has
                        \* run), "crashed" (an exception left __init__)
    seedIdx,            \* connect_seeds: the loop index i, from 1; 0 at a node
                        \* whose bootstrap is not followed
    my_ip_address,      \* self.my_ip_address, a text
    peers_from_seed,    \* self.peers_from_seed: a set of address texts
    complete_peer_list, \* connect_seeds: the local complete_peer_list, bound or not
    todo,               \* start_peer_connection: the sampled candidates not yet tried
    waiting,            \* start_peer_connection: the attempt blocked in sock.recv
    registry,           \* per seed: its self.peers
    observed,           \* per seed: address[0], the host it sees the nodes at
    replyLog            \* history: per node, the replies of the seeds, in order

seedVars == <<peers, seedPc, seedHost, peer_address, reply, seedBudget,
              regLog, onlyRegs, overlapped>>

peerVars == <<connected_peers, message_list, connect_seed_addr, sessions, liveIdx,
              gossipSeq, delivered, deadSent, alive, seedUp, reqBudget,
              gossipBudget, lastEvicted, lastReset>>

bootVars == <<bootPc, seedIdx, my_ip_address, peers_from_seed, complete_peer_list,
              todo, waiting, registry, observed, replyLog>>

vars == <<seedVars, peerVars, unprobed, bootVars>>

-----------------------------------------------------------------------------
(* Bounds of the model *)

\* messages sent to the seed
MaxSeedMsgs == 3
\* connect requests sent to the node under test
MaxRequests == 5
\* connect requests sent to the node whose failure detector is followed
MaxNeighbours == 2
\* gossip messages originated in a flood
MaxGossip == 1

-----------------------------------------------------------------------------
(* Text: Python str operations on sequences of characters *)

Min(a, b) == IF a < b THEN a ELSE b

Range(s) == {s[i] : i \in 1..Len(s)}

\* s[:k]
Prefix(s, k) == SubSeq(s, 1, Min(k, Len(s)))

\* needle in hay, for str
Contains(needle, hay) ==
    \E i \in 1..(Len(hay) + 1) :
        /\ i + Len(needle) - 1 <= Len(hay)
        /\ SubSeq(hay, i, i + Len(needle) - 1) = needle

RECURSIVE SplitAcc(_, _, _, _)
SplitAcc(s, sep, i, cur) ==
    IF i > Len(s) THEN <<cur>>
    ELSE IF s[i] = sep THEN <<cur>> \o SplitAcc(s, sep, i + 1, <<>>)
    ELSE SplitAcc(s, sep, i + 1, Append(cur, s[i]))

\* s.split(sep), sep one character
Split(s, sep) == SplitAcc(s, sep, 1, <<>>)

RECURSIVE Join(_, _)
\* sep.join(list)
Join(list, sep) ==
    IF Len(list) = 0 THEN <<>>
    ELSE IF Len(list) = 1 THEN list[1]
    ELSE list[1] \o <<sep>> \o Join(Tail(list), sep)

\* list.remove(x), x in list: drops the first element equal to x
RemoveFirst(list, x) ==
    LET i == CHOOSE j \in 1..Len(list) :
                 list[j] = x /\ \A k \in 1..(j - 1) : list[k] # x
    IN  SubSeq(list, 1, i - 1) \o SubSeq(list, i + 1, Len(list))

-----------------------------------------------------------------------------
(* Wire texts the seed can receive *)

Hosts == {"a", "b"}
Ports == {"1", "2"}

DisconnectedTag ==
    <<"D","i","s","c","o","n","n","e","c","t","e","d"," ","N","o","d","e">>
DeadTag == <<"D","e","a","d"," ","N","o","d","e">>

\* peer.py connect_seeds: MY_ADDRESS = my_ip_address + ":" + my_port
RegistrationMsg(ip, port) == <<ip, ":", port>>
\* "Disconnected Node:<ip>:<port>"
DisconnectedMsg(ip, port) == DisconnectedTag \o <<":", ip, ":", port>>
\* peer.py report_dead: "Dead Node:" + peer + ":" + time + ":" + my_ip_address
DeadMsg(ip, port, reporter) == DeadTag \o <<":", ip, ":", port, ":", "7", ":", reporter>>

Registrations == {RegistrationMsg(h, p) : h \in Hosts, p \in Ports}
Disconnects == {DisconnectedMsg(h, p) : h \in Hosts, p \in Ports}
DeadNotices == {DeadMsg(h, p, "a") : h \in Hosts, p \in Ports}
\* a text with no ":" in it
Malformed == {<<"x">>}

SeedInbox == Registrations \cup Disconnects \cup DeadNotices \cup Malformed

\* the inbound connections of the seed, one manage_connection thread each
SeedSessions == {"c1", "c2"}

-----------------------------------------------------------------------------
(* peer.py: the nodes, their seeds and the messages between nodes *)

Nodes == {"n1", "n2", "n3"}
Seeds == {"s1", "s2"}

\* the node whose listener and failure detector are followed where one node
\* is studied against its environment
Self == "n1"

\* "if len(self.connected_peers) < 4"
MAX_DEGREE == 4
\* "if peer.i == 3"
FAILURE_THRESHOLD == 3
\* "for i in range(10)"
GOSSIP_COUNT == 10

\* class Peer: address, and i, the counter of failures. inbound and
\* failedInARow are history: whether new_connection made the record, and the
\* number of probes of the record that failed since its last reply.
Peer(addr, isInbound) ==
    [address |-> addr, i |-> 0, inbound |-> isInbound, failedInARow |-> 0]

\* "New Connect Request From:<ip>:<port>"
ConnectMsg(p) == [type |-> "New Connect Request From", origin |-> p, seq |-> 0]
\* "<timestamp>:<ip>:<port>:GOSSIP<k>"
GossipMsg(p, k) == [type |-> "GOSSIP", origin |-> p, seq |-> k]
\* "Dead Node:<peer>:<timestamp>:<my_ip_address>"
DeadNodeMsg(peer, reporter) == [type |-> "Dead Node", peer |-> peer, reporter |-> reporter]

\* hashlib.sha256(text.encode()).hexdigest(): one digest per text
Digest(text) == <<"sha256", text>>

One(x) == SetToBag({x})

RemoveAt(list, k) == SubSeq(list, 1, k - 1) \o SubSeq(list, k + 1, Len(list))

\* register_with_k_seeds: random.sample of n // 2 + 1 of the n seeds, as a list
SelectedSeedLists ==
    {sl \in [1..((Cardinality(Seeds) \div 2) + 1) -> Seeds] :
        \A i, j \in DOMAIN sl : i # j => sl[i] # sl[j]}

\* the text of a port number: one port per node
NodePort(n) == CASE n = "n1" -> "1" [] n = "n2" -> "2" [] n = "n3" -> "3"

\* the value of a local that no assignment has reached yet
Unbound == [bound |-> FALSE, list |-> {}]

\* the bootstrap of every node is over and is not followed
BootIdle ==
    /\ bootPc = [n \in Nodes |-> "jobs"]
    /\ seedIdx = [n \in Nodes |-> 0]
    /\ my_ip_address = [n \in Nodes |-> <<"a">>]
    /\ peers_from_seed = [n \in Nodes |-> {}]
    /\ complete_peer_list = [n \in Nodes |-> Unbound]
    /\ todo = [n \in Nodes |-> {}]
    /\ waiting = [n \in Nodes |-> <<>>]
    /\ registry = [s \in Seeds |-> <<>>]
    /\ observed = [s \in Seeds |-> "a"]
    /\ replyLog = [n \in Nodes |-> <<>>]

\* a node after __init__ whose bootstrap found no candidate: no record, no
\* digest, no session, every job at its start
PeerFresh ==
    /\ BootIdle
    /\ unprobed = [n \in Nodes |-> EmptyBag]
    /\ message_list = [n \in Nodes |-> <<>>]
    /\ sessions = EmptyBag
    /\ liveIdx = [n \in Nodes |-> 0]
    /\ gossipSeq = [n \in Nodes |-> 0]
    /\ delivered = [n \in Nodes |-> EmptyBag]
    /\ deadSent = [s \in Seeds |-> EmptyBag]
    /\ alive = Nodes
    /\ seedUp = Seeds
    /\ lastEvicted = 0
    /\ lastReset = 0

PeerIdle ==
    /\ PeerFresh
    /\ connected_peers = [n \in Nodes |-> <<>>]
    /\ connect_seed_addr = [n \in Nodes |-> <<"s1", "s2">>]
    /\ reqBudget = 0
    /\ gossipBudget = 0

-----------------------------------------------------------------------------
(* peer.py: the handshake. start_peer_connection of another node sends the  *)
(* request; new_connection runs in the session's thread and can be         *)
(* preempted at conn.send, between the test of the length and the append.  *)

\* lines 149-150, at node p, toward node n
start_peer_connection_send(p, n) ==
    /\ p # n
    /\ reqBudget > 0
    /\ reqBudget' = reqBudget - 1
    /\ sessions' = sessions (+) One([to |-> n, msg |-> ConnectMsg(p), pc |-> "recv"])
    /\ UNCHANGED <<connected_peers, message_list, connect_seed_addr, liveIdx, gossipSeq,
                   delivered, deadSent, alive, seedUp, gossipBudget, lastEvicted,
                   lastReset>>
    /\ UNCHANGED <<seedVars, unprobed, bootVars>>

\* line 104: "if len(self.connected_peers) < 4"
HasRoom(n) == Len(connected_peers[n]) < MAX_DEGREE

\* lines 83-84, 104: the dispatch and the test of the length
new_connection_check(sess) ==
    /\ sess \in BagToSet(sessions)
    /\ sess.pc = "recv"
    /\ sess.msg.type = "New Connect Request From"
    /\ sessions' = IF HasRoom(sess.to)
                   THEN (sessions (-) One(sess)) (+) One([sess EXCEPT !.pc = "accept"])
                   ELSE sessions (-) One(sess)
    /\ UNCHANGED <<connected_peers, message_list, connect_seed_addr, liveIdx, gossipSeq,
                   delivered, deadSent, alive, seedUp, reqBudget, gossipBudget,
                   lastEvicted, lastReset>>
    /\ UNCHANGED <<seedVars, unprobed, bootVars>>

\* lines 105-108: the reply, then the append of Peer(addr[0]:message_parts[2])
new_connection_append(sess) ==
    /\ sess \in BagToSet(sessions)
    /\ sess.pc = "accept"
    /\ connected_peers' = [connected_peers EXCEPT
                              ![sess.to] = Append(@, Peer(sess.msg.origin, TRUE))]
    /\ sessions' = sessions (-) One(sess)
    /\ UNCHANGED <<message_list, connect_seed_addr, liveIdx, gossipSeq,
                   delivered, deadSent, alive, seedUp, reqBudget, gossipBudget,
                   lastEvicted, lastReset>>
    /\ UNCHANGED <<seedVars, unprobed, bootVars>>

-----------------------------------------------------------------------------
(* peer.py: the failure detector. One step per probe: the for loop's list   *)
(* iterator keeps a position in the live list, which handshakes append to  *)
(* and the loop itself removes from.                                       *)

RECURSIVE report_dead_first_seed_only(_, _, _)
\* a bug: the loop over the seeds ends after the first seed
report_dead_first_seed_only(sent, seedList, message) ==
    IF seedList = <<>> THEN sent
    ELSE IF Head(seedList) \in seedUp
         THEN [sent EXCEPT ![Head(seedList)] = @ (+) One(message)]
         ELSE sent

RECURSIVE report_dead(_, _, _)
\* lines 231-244: one message to each seed of the list that can be reached
report_dead(sent, seedList, message) ==
    IF seedList = <<>> THEN sent
    ELSE LET seed == Head(seedList)
             now == IF seed \in seedUp
                    THEN [sent EXCEPT ![seed] = @ (+) One(message)]
                    ELSE sent
         IN  report_dead(now, Tail(seedList), message)

RECURSIVE AddressBag(_)
\* history: the addresses of the records of a table, with their multiplicity
AddressBag(table) ==
    IF table = <<>> THEN EmptyBag ELSE One(Head(table).address) (+) AddressBag(Tail(table))

\* lines 250-253: a cycle begins, the iterator is at the first element
liveness_test_start(n) ==
    /\ liveIdx[n] = 0
    /\ liveIdx' = [liveIdx EXCEPT ![n] = 1]
    /\ unprobed' = [unprobed EXCEPT ![n] = AddressBag(connected_peers[n])]
    /\ UNCHANGED <<connected_peers, message_list, connect_seed_addr, sessions, gossipSeq,
                   delivered, deadSent, alive, seedUp, reqBudget, gossipBudget,
                   lastEvicted, lastReset>>
    /\ UNCHANGED <<seedVars, bootVars>>

\* a bug: the counter is left as it is after a reply
ProbeSucceededNoReset(peer) == [peer EXCEPT !.failedInARow = 0]

\* line 262: "peer.i = 0"
ProbeSucceeded(peer) == [peer EXCEPT !.i = 0, !.failedInARow = 0]

\* lines 255-262: connect, send, recv succeed
liveness_test_probe_ok(n) ==
    /\ liveIdx[n] \in 1..Len(connected_peers[n])
    /\ LET k == liveIdx[n]
           peer == connected_peers[n][k]
       IN  /\ peer.address \in alive
           /\ connected_peers' = [connected_peers EXCEPT ![n][k] = ProbeSucceeded(peer)]
           /\ lastReset' = peer.failedInARow
           /\ unprobed' = [unprobed EXCEPT ![n] = @ (-) One(peer.address)]
    /\ liveIdx' = [liveIdx EXCEPT ![n] = @ + 1]
    /\ UNCHANGED <<message_list, connect_seed_addr, sessions, gossipSeq,
                   delivered, deadSent, alive, seedUp, reqBudget, gossipBudget,
                   lastEvicted>>
    /\ UNCHANGED <<seedVars, bootVars>>

\* line 265: "if peer.i == 3", after the increment
ReachedThreshold(count) == count = FAILURE_THRESHOLD

\* lines 263-267: the probe raises: "peer.i = peer.i + 1", and at the
\* threshold report_dead and "self.connected_peers.remove(peer)"
liveness_test_probe_fail(n) ==
    /\ liveIdx[n] \in 1..Len(connected_peers[n])
    /\ LET k == liveIdx[n]
           peer == connected_peers[n][k]
           failed == [peer EXCEPT !.i = peer.i + 1, !.failedInARow = @ + 1]
       IN  /\ peer.address \notin alive
           /\ unprobed' = [unprobed EXCEPT ![n] = @ (-) One(peer.address)]
           /\ IF ReachedThreshold(failed.i)
              THEN /\ deadSent' = report_dead(deadSent, connect_seed_addr[n],
                                              DeadNodeMsg(peer.address, n))
                   /\ connected_peers' = [connected_peers EXCEPT ![n] = RemoveAt(@, k)]
                   /\ lastEvicted' = failed.failedInARow
              ELSE /\ connected_peers' = [connected_peers EXCEPT ![n][k] = failed]
                   /\ UNCHANGED <<deadSent, lastEvicted>>
    /\ liveIdx' = [liveIdx EXCEPT ![n] = @ + 1]
    /\ UNCHANGED <<message_list, connect_seed_addr, sessions, gossipSeq,
                   delivered, alive, seedUp, reqBudget, gossipBudget, lastReset>>
    /\ UNCHANGED <<seedVars, bootVars>>

\* line 268: the iterator is exhausted, the thread sleeps until the next cycle
liveness_test_sleep(n) ==
    /\ liveIdx[n] > Len(connected_peers[n])
    /\ liveIdx' = [liveIdx EXCEPT ![n] = 0]
    /\ unprobed' = [unprobed EXCEPT ![n] = EmptyBag]
    /\ UNCHANGED <<connected_peers, message_list, connect_seed_addr, sessions, gossipSeq,
                   delivered, deadSent, alive, seedUp, reqBudget, gossipBudget,
                   lastEvicted, lastReset>>
    /\ UNCHANGED <<seedVars, bootVars>>

\* the environment: a node other than Self goes down or comes back
NodeFlips(p) ==
    /\ p # Self
    /\ alive' = IF p \in alive THEN alive \ {p} ELSE alive \cup {p}
    /\ UNCHANGED <<connected_peers, message_list, connect_seed_addr, sessions, liveIdx,
                   gossipSeq, delivered, deadSent, seedUp, reqBudget, gossipBudget,
                   lastEvicted, lastReset>>
    /\ UNCHANGED <<seedVars, unprobed, bootVars>>

\* the environment: a seed goes down or comes back
SeedFlips(s) ==
    /\ seedUp' = IF s \in seedUp THEN seedUp \ {s} ELSE seedUp \cup {s}
    /\ UNCHANGED <<connected_peers, message_list, connect_seed_addr, sessions, liveIdx,
                   gossipSeq, delivered, deadSent, alive, reqBudget, gossipBudget,
                   lastEvicted, lastReset>>
    /\ UNCHANGED <<seedVars, unprobed, bootVars>>

-----------------------------------------------------------------------------
(* peer.py: gossip. Every send is a fresh connection, so every message is   *)
(* a session of its own at the receiver; forward_gossip_message runs in    *)
(* that session's thread and can be preempted between the test            *)
(* "hash_value in self.message_list" and the append.                       *)

RECURSIVE SendToAll(_, _, _)
\* "for peer in self.connected_peers": connect and send; a peer that cannot
\* be reached raises, and the loop goes on
SendToAll(inFlight, table, message) ==
    IF table = <<>> THEN inFlight
    ELSE LET target == Head(table).address
             now == IF target \in alive
                    THEN inFlight (+) One([to |-> target, msg |-> message, pc |-> "recv"])
                    ELSE inFlight
         IN  SendToAll(now, Tail(table), message)

\* a bug: the loop over the peers ends after the first peer
TargetsFirstOnly(n) == SubSeq(connected_peers[n], 1, Min(1, Len(connected_peers[n])))

\* the peers a message goes to: lines 284 and 304
Targets(n) == connected_peers[n]

\* a bug: the digest of an own message is not recorded
RememberOwnNot(list, text) == list

\* line 303: "self.message_list.append(str(hash_value))", before the sends
RememberOwn(list, text) == Append(list, Digest(text))

\* lines 300-315: one iteration of the loop of gossip
gossip(n) ==
    /\ gossipBudget > 0
    /\ gossipSeq[n] < GOSSIP_COUNT
    /\ LET gossip_message == GossipMsg(n, gossipSeq[n] + 1) IN
       /\ message_list' = [message_list EXCEPT ![n] = RememberOwn(@, gossip_message)]
       /\ sessions' = SendToAll(sessions, Targets(n), gossip_message)
    /\ gossipSeq' = [gossipSeq EXCEPT ![n] = @ + 1]
    /\ gossipBudget' = gossipBudget - 1
    /\ UNCHANGED <<connected_peers, connect_seed_addr, liveIdx, delivered, deadSent,
                   alive, seedUp, reqBudget, lastEvicted, lastReset>>
    /\ UNCHANGED <<seedVars, unprobed, bootVars>>

\* line 278: "hash_value in self.message_list"
Seen(n, text) == Digest(text) \in Range(message_list[n])

\* a bug: a message whose digest is known is left unread on its connection
DropKeeps(inFlight, sess) == inFlight

\* lines 278-279: "pass": the message has been read and nothing follows
Drop(inFlight, sess) == inFlight (-) One(sess)

\* lines 87-88, 277-279: the dispatch, the digest and the test
forward_gossip_message_check(sess) ==
    /\ sess \in BagToSet(sessions)
    /\ sess.pc = "recv"
    /\ sess.msg.type = "GOSSIP"
    /\ sessions' = IF Seen(sess.to, sess.msg)
                   THEN Drop(sessions, sess)
                   ELSE (sessions (-) One(sess)) (+) One([sess EXCEPT !.pc = "forward"])
    /\ UNCHANGED <<connected_peers, message_list, connect_seed_addr, liveIdx, gossipSeq,
                   delivered, deadSent, alive, seedUp, reqBudget, gossipBudget,
                   lastEvicted, lastReset>>
    /\ UNCHANGED <<seedVars, unprobed, bootVars>>

\* a bug: the digest is not recorded
RememberNothing(list, text) == list

\* line 281: "self.message_list.append(str(hash_value))"
Remember(list, text) == Append(list, Digest(text))

\* lines 281-294: the append, the log line, and the send to every peer
forward_gossip_message_deliver(sess) ==
    /\ sess \in BagToSet(sessions)
    /\ sess.pc = "forward"
    /\ message_list' = [message_list EXCEPT ![sess.to] = Remember(@, sess.msg)]
    /\ delivered' = [delivered EXCEPT ![sess.to] = @ (+) One(sess.msg)]
    /\ sessions' = SendToAll(sessions (-) One(sess), Targets(sess.to), sess.msg)
    /\ UNCHANGED <<connected_peers, connect_seed_addr, liveIdx, gossipSeq, deadSent,
                   alive, seedUp, reqBudget, gossipBudget, lastEvicted, lastReset>>
    /\ UNCHANGED <<seedVars, unprobed, bootVars>>

-----------------------------------------------------------------------------
(* seed.py: SeedNode.manage_connection *)

\* the slice length of data[:15]
DisconnectSliceLen == 15

\* "Disconnected Node" in data[:15]
IsDisconnected(data) == Contains(DisconnectedTag, Prefix(data, DisconnectSliceLen))

\* a bug: the closing comma is left out
SnapshotNoClosingComma(list) == Join(list, ",")

\* ",".join(self.peers) + ","
Snapshot(list) == Join(list, ",") \o <<",">>

\* the entries of a reply as the peer reads them: split(","), pop() the empty
\* tail, and the next pop() is the requester's own address
ReplyEntries(text) ==
    LET parts == Split(text, ",") IN SubSeq(parts, 1, Len(parts) - 1)
FinalEntry(text) == ReplyEntries(text)[Len(ReplyEntries(text))]

\* a seed after __init__, with its sessions accepted and nothing received
SeedFresh ==
    /\ peers = <<>>
    /\ seedPc = [s \in SeedSessions |-> "recv"]
    /\ peer_address = [s \in SeedSessions |-> <<>>]
    /\ reply = [s \in SeedSessions |-> <<>>]
    /\ regLog = <<>>
    /\ onlyRegs = TRUE
    /\ overlapped = FALSE

\* the seed where only the nodes are followed: nothing is sent to it
SeedIdle ==
    /\ SeedFresh
    /\ seedHost = [s \in SeedSessions |-> "a"]
    /\ seedBudget = 0

SeedInit ==
    /\ SeedFresh
    /\ seedHost \in [SeedSessions -> Hosts]
    /\ seedBudget = MaxSeedMsgs
    /\ PeerIdle

\* history: the address of the requester of a registration, the host the seed
\* observed and the port the text announces
Registrant(host, data) ==
    LET port == CHOOSE p \in Ports : \E h \in Hosts : data = RegistrationMsg(h, p)
    IN  <<host, ":", port>>

\* lines 52-68: one recv, the dispatch, and the list update of the branch taken
manage_connection_recv(s, data) ==
    /\ seedPc[s] = "recv"
    /\ seedBudget > 0
    /\ seedBudget' = seedBudget - 1
    /\ onlyRegs' = (onlyRegs /\ data \in Registrations)
    /\ overlapped' = (overlapped \/ \E t \in SeedSessions : seedPc[t] = "send")
    /\ LET parts == Split(data, ":") IN
       IF IsDisconnected(data) THEN
            IF Len(parts) < 3 THEN
                \* IndexError: caught, the loop breaks, the connection is closed
                /\ seedPc' = [seedPc EXCEPT ![s] = "closed"]
                /\ UNCHANGED <<peers, peer_address, regLog>>
            ELSE
                LET disconnected_node == parts[2] \o <<":">> \o parts[3] IN
                /\ peers' = IF disconnected_node \in Range(peers)
                            THEN RemoveFirst(peers, disconnected_node)
                            ELSE peers
                /\ UNCHANGED <<seedPc, peer_address, regLog>>
       ELSE
            IF Len(parts) < 2 THEN
                /\ seedPc' = [seedPc EXCEPT ![s] = "closed"]
                /\ UNCHANGED <<peers, peer_address, regLog>>
            ELSE
                LET addr == <<seedHost[s]>> \o <<":">> \o parts[2] IN
                /\ peer_address' = [peer_address EXCEPT ![s] = addr]
                /\ peers' = Append(peers, addr)
                /\ regLog' = IF data \in Registrations
                             THEN Append(regLog, Registrant(seedHost[s], data))
                             ELSE regLog
                /\ seedPc' = [seedPc EXCEPT ![s] = "send"]
    /\ UNCHANGED <<seedHost, reply>>
    /\ UNCHANGED <<peerVars, unprobed, bootVars>>

\* lines 69-70: build the snapshot from self.peers as it is now, and send it
manage_connection_send(s) ==
    /\ seedPc[s] = "send"
    /\ reply' = [reply EXCEPT ![s] = Snapshot(peers)]
    /\ seedPc' = [seedPc EXCEPT ![s] = "recv"]
    /\ UNCHANGED <<peers, seedHost, peer_address, seedBudget, regLog,
                   onlyRegs, overlapped>>
    /\ UNCHANGED <<peerVars, unprobed, bootVars>>

SeedNext ==
    \/ \E s \in SeedSessions, data \in SeedInbox : manage_connection_recv(s, data)
    \/ \E s \in SeedSessions : manage_connection_send(s)

SeedSpec == SeedInit /\ [][SeedNext]_vars

-----------------------------------------------------------------------------
(* peer.py: the bootstrap. __init__ runs register_with_k_seeds, which asks  *)
(* each selected seed in turn (connect_seeds), then limit_connection and    *)
(* start_peer_connection toward a sample of the candidates, and only then   *)
(* initialize_threads: a node listens once its bootstrap is over. Addresses *)
(* are texts here, as the seeds and the nodes exchange them. A seed handles *)
(* a registration in one step.                                              *)

\* "limit = min(random.randint(1, len(complete_peer_list)), 4)"
SAMPLE_LIMIT == 4

\* my_ip_address as __main__ configures it
ConfiguredHost == <<"c">>

\* line 200: MY_ADDRESS = str(self.my_ip_address) + ":" + str(self.my_port)
MY_ADDRESS(n) == my_ip_address[n] \o <<":", NodePort(n)>>

\* seed.py lines 63-65: the seed appends address[0] + ":" + data.split(":")[1]
seed_register(list, host, data) == Append(list, <<host, ":">> \o Split(data, ":")[2])

\* lines 179-181: split(","), pop(), pop(): the second pop raises IndexError
\* when the text holds no comma
UnionRaises(text) == Len(Split(text, ",")) < 2

\* lines 181-183: temp = complete_peer_list.pop(); temp.split(":")[0]
ReportedHost(text) == LET parts == Split(text, ",") IN Split(parts[Len(parts) - 1], ":")[1]

\* a bug: the address of the first reply is kept
AdoptedHostKeepsFirst(held, text) ==
    IF held = ConfiguredHost THEN ReportedHost(text) ELSE held

\* line 183: "self.my_ip_address = temp[0]"
AdoptedHost(held, text) == ReportedHost(text)

\* lines 184-186: the entries left after the two pops, the empty ones skipped
Offered(text) ==
    LET parts == Split(text, ",") IN {parts[i] : i \in 1..(Len(parts) - 2)} \ {<<>>}

\* a bug: the entries of a reply replace the ones of the replies before
union_peer_lists_replaces(known, text) == Offered(text)

\* lines 184-187: self.peers_from_seed.add(i) for each entry
union_peer_lists(known, text) == known \cup Offered(text)

\* lines 194-209: one iteration of the loop of connect_seeds. A seed that is
\* down makes sock.connect raise: the except clause prints, the loop goes on.
connect_seeds_query(n) ==
    /\ bootPc[n] = "seeds"
    /\ seedIdx[n] <= Len(connect_seed_addr[n])
    /\ LET seed == connect_seed_addr[n][seedIdx[n]] IN
       IF seed \in seedUp
       THEN LET list == seed_register(registry[seed], observed[seed], MY_ADDRESS(n))
                message == Snapshot(list)
            IN  /\ registry' = [registry EXCEPT ![seed] = list]
                /\ replyLog' = [replyLog EXCEPT ![n] = Append(@, message)]
                /\ IF UnionRaises(message)
                   THEN UNCHANGED <<my_ip_address, peers_from_seed, complete_peer_list>>
                   ELSE /\ my_ip_address' =
                              [my_ip_address EXCEPT ![n] = AdoptedHost(@, message)]
                        /\ peers_from_seed' =
                              [peers_from_seed EXCEPT ![n] = union_peer_lists(@, message)]
                        /\ complete_peer_list' =
                              [complete_peer_list EXCEPT ![n] =
                                  [bound |-> TRUE,
                                   list |-> union_peer_lists(peers_from_seed[n], message)]]
       ELSE UNCHANGED <<registry, replyLog, my_ip_address, peers_from_seed,
                        complete_peer_list>>
    /\ seedIdx' = [seedIdx EXCEPT ![n] = @ + 1]
    /\ UNCHANGED <<bootPc, todo, waiting, observed>>
    /\ UNCHANGED <<seedVars, peerVars, unprobed>>

\* lines 164-166: random.sample of the candidates, of a size from 1 to the limit
Samples(list) ==
    IF list = {} THEN {{}}
    ELSE {S \in SUBSET list : S # {} /\ Cardinality(S) <= SAMPLE_LIMIT}

\* line 210, after the loop: "self.limit_connection(complete_peer_list)". The
\* local is bound by the assignment of line 203 only: when no seed replied,
\* reading it raises UnboundLocalError, which no handler catches.
connect_seeds_end(n) ==
    /\ bootPc[n] = "seeds"
    /\ seedIdx[n] > Len(connect_seed_addr[n])
    /\ IF complete_peer_list[n].bound
       THEN /\ bootPc' = [bootPc EXCEPT ![n] = "connect"]
            /\ \E sample \in Samples(complete_peer_list[n].list) :
                  todo' = [todo EXCEPT ![n] = sample]
       ELSE /\ bootPc' = [bootPc EXCEPT ![n] = "crashed"]
            /\ UNCHANGED todo
    /\ UNCHANGED <<seedIdx, my_ip_address, peers_from_seed, complete_peer_list,
                   waiting, registry, observed, replyLog>>
    /\ UNCHANGED <<seedVars, peerVars, unprobed>>

\* a bug: the listener is started before the bootstrap
ListensFromStart(m, address) == MY_ADDRESS(m) = address

\* lines 324-327: node m has bound (my_ip_address, my_port) and listens
Listens(m, address) == bootPc[m] = "jobs" /\ MY_ADDRESS(m) = address

\* lines 143-150: one candidate of the sample: connect, append the record,
\* send the request. When nothing listens at the address, connect raises and
\* the candidate is skipped. The receiver sees the request come from a host
\* of its own view.
start_peer_connection_connect(n, c) ==
    /\ bootPc[n] = "connect"
    /\ c \in todo[n]
    /\ IF \E m \in Nodes : Listens(m, c)
       THEN \E h \in Hosts :
              LET m == CHOOSE x \in Nodes : Listens(x, c)
                  seenAs == <<h, ":", NodePort(n)>>
              IN  /\ connected_peers' =
                        [connected_peers EXCEPT ![n] = Append(@, Peer(c, FALSE))]
                  /\ sessions' = sessions (+)
                        One([to |-> m, msg |-> ConnectMsg(seenAs), pc |-> "recv"])
                  /\ waiting' = [waiting EXCEPT
                                    ![n] = <<[candidate |-> c, node |-> m, seenAs |-> seenAs]>>]
                  /\ bootPc' = [bootPc EXCEPT ![n] = "await"]
                  /\ UNCHANGED todo
       ELSE /\ todo' = [todo EXCEPT ![n] = @ \ {c}]
            /\ UNCHANGED <<connected_peers, sessions, waiting, bootPc>>
    /\ UNCHANGED <<message_list, connect_seed_addr, liveIdx, gossipSeq, delivered,
                   deadSent, alive, seedUp, reqBudget, gossipBudget, lastEvicted,
                   lastReset>>
    /\ UNCHANGED <<seedIdx, my_ip_address, peers_from_seed, complete_peer_list,
                   registry, observed, replyLog>>
    /\ UNCHANGED <<seedVars, unprobed>>

\* line 105: the candidate has sent "New Connect Accepted" on the connection
Replied(w) ==
    \/ [to |-> w.node, msg |-> ConnectMsg(w.seenAs), pc |-> "accept"] \in BagToSet(sessions)
    \/ \E k \in 1..Len(connected_peers[w.node]) :
          /\ connected_peers[w.node][k].address = w.seenAs
          /\ connected_peers[w.node][k].inbound

\* lines 151-153: sock.recv returns the reply; the socket has no timeout, so
\* the call returns only when the candidate has sent something
start_peer_connection_recv(n) ==
    /\ bootPc[n] = "await"
    /\ Replied(waiting[n][1])
    /\ todo' = [todo EXCEPT ![n] = @ \ {waiting[n][1].candidate}]
    /\ waiting' = [waiting EXCEPT ![n] = <<>>]
    /\ bootPc' = [bootPc EXCEPT ![n] = "connect"]
    /\ UNCHANGED <<seedIdx, my_ip_address, peers_from_seed, complete_peer_list,
                   registry, observed, replyLog>>
    /\ UNCHANGED <<seedVars, peerVars, unprobed>>

\* lines 41-44: register_with_k_seeds has returned; initialize_threads starts
\* the listener, the failure detector and the gossip loop
initialize_threads(n) ==
    /\ bootPc[n] = "connect"
    /\ todo[n] = {}
    /\ bootPc' = [bootPc EXCEPT ![n] = "jobs"]
    /\ UNCHANGED <<seedIdx, my_ip_address, peers_from_seed, complete_peer_list,
                   todo, waiting, registry, observed, replyLog>>
    /\ UNCHANGED <<seedVars, peerVars, unprobed>>

\* the nodes that joined before the run and fill the table of a node at
\* MAX_DEGREE: their ports
Externals == <<"5", "6", "7", "8">>

\* the addresses a seed at host view h holds for the external nodes
ExternalAddresses(h) == [k \in 1..Len(Externals) |-> <<h, ":", Externals[k]>>]

\* a Membership Table at MAX_DEGREE: a record from new_connection for each
\* external node
FullTable == [k \in 1..Len(Externals) |-> Peer(<<"a", ":", Externals[k]>>, TRUE)]

\* The overlay when the nodes of joining start: the other nodes finished
\* their bootstrap before (first with s1, then with s2), listen, and are in
\* the registry of both seeds; joining run __init__ with the configured
\* address and a sample of the seeds.
BootstrapStart(joining, tables, firstRegistered) ==
    /\ bootPc = [n \in Nodes |-> IF n \in joining THEN "seeds" ELSE "jobs"]
    /\ seedIdx = [n \in Nodes |-> IF n \in joining THEN 1 ELSE 0]
    /\ my_ip_address = [n \in Nodes |-> IF n \in joining THEN ConfiguredHost
                                        ELSE <<observed["s2"]>>]
    /\ peers_from_seed = [n \in Nodes |-> {}]
    /\ complete_peer_list = [n \in Nodes |-> IF n \in joining THEN Unbound
                                             ELSE [bound |-> TRUE, list |-> {}]]
    /\ todo = [n \in Nodes |-> {}]
    /\ waiting = [n \in Nodes |-> <<>>]
    /\ replyLog = [n \in Nodes |-> <<>>]
    /\ connected_peers = tables
    /\ registry = [s \in Seeds |->
                      IF firstRegistered = <<>> THEN <<>>
                      ELSE (IF tables[firstRegistered[1]] = <<>> THEN <<>>
                            ELSE ExternalAddresses(observed[s]))
                           \o [k \in 1..Len(firstRegistered) |->
                                  <<observed[s], ":", NodePort(firstRegistered[k])>>]]
    /\ \E sl \in [joining -> SelectedSeedLists] :
          connect_seed_addr = [n \in Nodes |-> IF n \in joining THEN sl[n]
                                               ELSE <<"s1", "s2">>]

\* what an overlay in bootstrap leaves alone, and the seeds as they are
\* during it
BootstrapEnv ==
    /\ SeedIdle
    /\ message_list = [n \in Nodes |-> <<>>]
    /\ sessions = EmptyBag
    /\ liveIdx = [n \in Nodes |-> 0]
    /\ gossipSeq = [n \in Nodes |-> 0]
    /\ delivered = [n \in Nodes |-> EmptyBag]
    /\ deadSent = [s \in Seeds |-> EmptyBag]
    /\ alive = Nodes
    /\ lastEvicted = 0
    /\ lastReset = 0
    /\ unprobed = [n \in Nodes |-> EmptyBag]
    /\ reqBudget = 0
    /\ gossipBudget = 0
    /\ seedUp \in SUBSET Seeds
    /\ observed \in [Seeds -> Hosts]

\* n3 is the first node of the overlay; n1 and n2 join
FormingStart == BootstrapStart({"n1", "n2"}, [n \in Nodes |-> <<>>], <<"n3">>)

\* n3 is at MAX_DEGREE, n2 has no neighbour yet; n1 joins
SaturatedStart ==
    BootstrapStart({"n1"}, [n \in Nodes |-> IF n = "n3" THEN FullTable ELSE <<>>],
                   <<"n3", "n2">>)

BootstrapInit == BootstrapEnv /\ (FormingStart \/ SaturatedStart)

BootstrapNext ==
    \/ \E n \in Nodes : connect_seeds_query(n)
    \/ \E n \in Nodes : connect_seeds_end(n)
    \/ \E n \in Nodes : \E c \in todo[n] : start_peer_connection_connect(n, c)
    \/ \E n \in Nodes : start_peer_connection_recv(n)
    \/ \E n \in Nodes : initialize_threads(n)
    \/ \E sess \in BagToSet(sessions) : new_connection_check(sess)
    \/ \E sess \in BagToSet(sessions) : new_connection_append(sess)

BootstrapSpec == BootstrapInit /\ [][BootstrapNext]_vars

\* one node joins an overlay that has a node at MAX_DEGREE; every thread
\* that can take a step is scheduled
JoinInit == BootstrapEnv /\ SaturatedStart

JoinSpec == JoinInit /\ [][BootstrapNext]_vars /\ WF_vars(BootstrapNext)

-----------------------------------------------------------------------------
(* The node Self and its listener: connect requests from the other nodes,   *)
(* each handled by its own session thread.                                 *)

HandshakeInit ==
    /\ SeedIdle
    /\ PeerFresh
    /\ connected_peers = [n \in Nodes |-> <<>>]
    /\ connect_seed_addr = [n \in Nodes |-> <<"s1", "s2">>]
    /\ reqBudget = MaxRequests
    /\ gossipBudget = 0

HandshakeNext ==
    \/ \E p \in Nodes : start_peer_connection_send(p, Self)
    \/ \E sess \in BagToSet(sessions) : new_connection_check(sess)
    \/ \E sess \in BagToSet(sessions) : new_connection_append(sess)

HandshakeSpec == HandshakeInit /\ [][HandshakeNext]_vars

-----------------------------------------------------------------------------
(* The node Self, its listener and its failure detector, with neighbours   *)
(* and seeds that go down and come back.                                   *)

LivenessInit ==
    /\ SeedIdle
    /\ PeerFresh
    /\ connected_peers = [n \in Nodes |-> <<>>]
    /\ connect_seed_addr \in {[n \in Nodes |-> sl] : sl \in SelectedSeedLists}
    /\ reqBudget = MaxNeighbours
    /\ gossipBudget = 0

LivenessNext ==
    \/ \E p \in Nodes : start_peer_connection_send(p, Self)
    \/ \E sess \in BagToSet(sessions) : new_connection_check(sess)
    \/ \E sess \in BagToSet(sessions) : new_connection_append(sess)
    \/ liveness_test_start(Self)
    \/ liveness_test_probe_ok(Self)
    \/ liveness_test_probe_fail(Self)
    \/ liveness_test_sleep(Self)
    \/ \E p \in Nodes : NodeFlips(p)
    \/ \E s \in Seeds : SeedFlips(s)

LivenessSpec == LivenessInit /\ [][LivenessNext]_vars

-----------------------------------------------------------------------------
(* A flood: every node up, the Membership Tables symmetric and the overlay *)
(* connected, as the handshakes of a bootstrap leave them.                 *)

Edges == {e \in SUBSET Nodes : Cardinality(e) = 2}

Neighbours(E, n) == {m \in Nodes : {n, m} \in E}

RECURSIVE ReachableFrom(_, _, _)
ReachableFrom(E, seen, k) ==
    IF k = 0 THEN seen
    ELSE ReachableFrom(E, seen \cup UNION {Neighbours(E, n) : n \in seen}, k - 1)

IsConnected(E) == \A n \in Nodes : ReachableFrom(E, {n}, Cardinality(Nodes)) = Nodes

RECURSIVE TableOf(_)
\* a Membership Table holding one record for each node of a set
TableOf(S) ==
    IF S = {} THEN <<>>
    ELSE LET m == CHOOSE x \in S : TRUE IN <<Peer(m, FALSE)>> \o TableOf(S \ {m})

FloodInit ==
    /\ SeedIdle
    /\ PeerFresh
    /\ \E E \in SUBSET Edges :
         /\ IsConnected(E)
         /\ connected_peers = [n \in Nodes |-> TableOf(Neighbours(E, n))]
    /\ connect_seed_addr = [n \in Nodes |-> <<"s1", "s2">>]
    /\ reqBudget = 0
    /\ gossipBudget = MaxGossip

FloodNext ==
    \/ \E n \in Nodes : gossip(n)
    \/ \E sess \in BagToSet(sessions) : forward_gossip_message_check(sess)
    \/ \E sess \in BagToSet(sessions) : forward_gossip_message_deliver(sess)

\* the threads of a node are all scheduled: a step that stays possible is taken
FloodSpec == FloodInit /\ [][FloodNext]_vars /\ WF_vars(FloodNext)

\* A flood over any Membership Tables: each node holds a record for any set
\* of the other nodes, whether or not they hold one for it. The messages are
\* those of Self: the tables range over every assignment, so any originator
\* is Self under a renaming of the nodes.
FloodAnyInit ==
    /\ SeedIdle
    /\ PeerFresh
    /\ \E T \in [Nodes -> SUBSET Nodes] :
         /\ \A n \in Nodes : n \notin T[n]
         /\ connected_peers = [n \in Nodes |-> TableOf(T[n])]
    /\ connect_seed_addr = [n \in Nodes |-> <<"s1", "s2">>]
    /\ reqBudget = 0
    /\ gossipBudget = MaxGossip

FloodAnyNext ==
    \/ gossip(Self)
    \/ \E sess \in BagToSet(sessions) : forward_gossip_message_check(sess)
    \/ \E sess \in BagToSet(sessions) : forward_gossip_message_deliver(sess)

FloodAnySpec == FloodAnyInit /\ [][FloodAnyNext]_vars /\ WF_vars(FloodAnyNext)

-----------------------------------------------------------------------------
(* Claims about the nodes *)

InboundCount(n) ==
    Cardinality({k \in 1..Len(connected_peers[n]) : connected_peers[n][k].inbound})

\* C1: in every reachable state, the Membership Table of a node holds at
\* most MAX_DEGREE records added by new_connection, whatever the interleaving
\* of its inbound sessions.
C1_InboundAtMostMaxDegree == \A n \in Nodes : InboundCount(n) <= MAX_DEGREE

\* C2: at every node, the deliver/log-and-forward step of gossip intake has
\* run at most once for each payload text, whatever the interleaving of the
\* node's inbound sessions.
C2_DeliveredAtMostOnce ==
    \A n \in Nodes : \A text \in BagToSet(delivered[n]) : CopiesIn(text, delivered[n]) <= 1

Payloads == {GossipMsg(o, k) : o \in Nodes, k \in 1..MaxGossip}

Originated(text) == Digest(text) \in Range(message_list[text.origin])

DeliveredEverywhere(text) ==
    \A n \in Nodes \ {text.origin} : CopiesIn(text, delivered[n]) >= 1

\* C3: in a connected overlay with symmetric Membership Tables and no
\* failure, every gossip message a node originates is eventually delivered
\* at every other node: from some point on, every message originated has
\* been delivered at each of the other nodes (an origination is never undone,
\* so each message originated reaches that point).
C3_FloodReachesAll ==
    <>[](\A text \in Payloads : Originated(text) => DeliveredEverywhere(text))

C3_Witness ==
    \E text \in Payloads :
        /\ Originated(text)
        /\ DeliveredEverywhere(text)
        /\ \E n \in Nodes : Len(connected_peers[n]) = 1

\* C4: once a node has taken in a payload, its digest is in the node's
\* Digest Cache; and an intake of a payload whose digest is in the Digest
\* Cache changes nothing: not the Digest Cache, not the Membership Table, not
\* the log, and no message is sent (the session's message is consumed).
C4_SecondIntakeIsNoOp ==
    /\ [](\A n \in Nodes : \A text \in BagToSet(delivered[n]) :
              Digest(text) \in Range(message_list[n]))
    /\ [][\A sess \in BagToSet(sessions) :
              (/\ sess.msg.type = "GOSSIP"
               /\ Digest(sess.msg) \in Range(message_list[sess.to])
               /\ forward_gossip_message_check(sess))
              => (/\ UNCHANGED <<message_list, connected_peers, delivered>>
                  /\ sessions' = sessions (-) One(sess))]_vars

\* every node has two neighbours, so each node other than the origin was sent
\* the payload at least twice; all of it was handled, and delivered once
C4_Witness ==
    \E text \in Payloads :
        /\ Originated(text)
        /\ sessions = EmptyBag
        /\ \A n \in Nodes : Len(connected_peers[n]) = 2
        /\ \A n \in Nodes \ {text.origin} : CopiesIn(text, delivered[n]) = 1

\* node n is probing the record at its iterator, the probe fails in this
\* step, and the record's two probes before it failed too
ThirdFailure(n) ==
    LET k == liveIdx[n] IN
    /\ k \in 1..Len(connected_peers[n])
    /\ liveIdx'[n] = k + 1
    /\ connected_peers[n][k].address \notin alive
    /\ connected_peers[n][k].failedInARow = FAILURE_THRESHOLD - 1

\* C5: when a record fails its third consecutive probe, that step removes it
\* from the Membership Table and sends exactly one "Dead Node" message naming
\* it to each seed selected at bootstrap that can be reached, and none to any
\* other seed.
C5_ThirdFailureEvictsAndReports ==
    [][\A n \in Nodes :
          ThirdFailure(n) =>
              LET k == liveIdx[n]
                  peer == connected_peers[n][k]
              IN  /\ connected_peers'[n] = RemoveAt(connected_peers[n], k)
                  /\ \A s \in Seeds :
                        deadSent'[s] =
                            IF s \in Range(connect_seed_addr[n]) /\ s \in seedUp
                            THEN deadSent[s] (+) One(DeadNodeMsg(peer.address, n))
                            ELSE deadSent[s]]_vars

\* a record was evicted while one selected seed was up and the other down
C5_Witness ==
    /\ lastEvicted # 0
    /\ \E s1, s2 \in Seeds :
          /\ deadSent[s1] # EmptyBag
          /\ deadSent[s2] = EmptyBag
          /\ s2 \in Range(connect_seed_addr[Self])

\* C6: the counter of every record is the number of its probes that failed
\* since its last reply (so a reply resets it to 0), and a record is evicted
\* only by the third failure in a row: no eviction follows fewer.
C6_EvictedOnlyAfterThreeInARow ==
    /\ \A n \in Nodes : \A k \in 1..Len(connected_peers[n]) :
          /\ connected_peers[n][k].i = connected_peers[n][k].failedInARow
          /\ connected_peers[n][k].failedInARow < FAILURE_THRESHOLD
    /\ lastEvicted # 0 => lastEvicted = FAILURE_THRESHOLD

\* a record failed twice and then replied: it is kept, its counter back at 0
C6_Witness ==
    /\ lastReset = FAILURE_THRESHOLD - 1
    /\ lastEvicted = 0
    /\ Len(connected_peers[Self]) = 1
    /\ connected_peers[Self][1].i = 0

-----------------------------------------------------------------------------
(* Claims about the seed *)

\* session s sends its reply in this step
SeedReplies(s) == seedPc[s] = "send" /\ seedPc'[s] = "recv"

\* the address a "Disconnected Node:<ip>:<port>" notice names
NoticeAddress(data) == LET parts == Split(data, ":") IN parts[2] \o <<":">> \o parts[3]

RECURSIVE EachWithComma(_)
\* every entry of list, in order, each followed by a comma
EachWithComma(list) ==
    IF list = <<>> THEN <<>> ELSE list[1] \o <<",">> \o EachWithComma(Tail(list))

\* C7: whenever a seed replies to a registration, in a run of registrations
\* from concurrent sessions, the final entry of the snapshot it sends is the
\* address of the requester of that session (observedHost:announcedPort).
C7_FinalEntryIsRequester ==
    [][\A s \in SeedSessions :
          (onlyRegs /\ SeedReplies(s)) => FinalEntry(reply'[s]) = peer_address[s]]_vars

\* C8: when registrations are handled one after another and nothing else was
\* handled, the snapshot sent to the n-th registrant is the addresses of the
\* n registrants so far in registration order (its own last), each followed
\* by a comma.
C8_SequentialSnapshot ==
    [][\A s \in SeedSessions :
          (onlyRegs /\ ~overlapped /\ SeedReplies(s)) =>
              /\ reply'[s] = EachWithComma(regLog)
              /\ regLog[Len(regLog)] = peer_address[s]]_vars

C8_Witness ==
    \E s \in SeedSessions :
        /\ onlyRegs /\ ~overlapped
        /\ Len(regLog) = 3
        /\ regLog[1] # regLog[2]
        /\ seedPc[s] = "recv"
        /\ reply[s] = EachWithComma(regLog)

\* C9: when the seed handles "Disconnected Node:<ip>:<port>" and <ip>:<port>
\* is in the RegisteredPeerList, the list afterwards is the list before with
\* its first matching entry removed (the others in order, nothing added).
C9_DeregisterRemovesFirst ==
    [][\A s \in SeedSessions, data \in Disconnects :
          (manage_connection_recv(s, data) /\ NoticeAddress(data) \in Range(peers))
              => peers' = RemoveFirst(peers, NoticeAddress(data))]_vars

\* C10: when the seed handles a "Disconnected Node" notice for an address
\* that is not in the RegisteredPeerList, the list is unchanged and the
\* session is not closed by an error.
C10_DeregisterAbsentIsNoOp ==
    [][\A s \in SeedSessions, data \in Disconnects :
          (manage_connection_recv(s, data) /\ NoticeAddress(data) \notin Range(peers))
              => (peers' = peers /\ seedPc'[s] # "closed")]_vars

\* C13: when the seed handles a "Dead Node" message, the RegisteredPeerList
\* is unchanged and the session is not about to send a snapshot: the message
\* is only logged.
C13_DeadNodeOnlyLogged ==
    [][\A s \in SeedSessions, data \in DeadNotices :
          manage_connection_recv(s, data) => (peers' = peers /\ seedPc'[s] # "send")]_vars

-----------------------------------------------------------------------------
(* Claims about the failure detector's cycle *)

\* C14: every record that is in the Membership Table when a cycle of the
\* failure detector begins is probed in that cycle, the records that follow
\* an evicted record included: when the cycle ends, none of them is left
\* unprobed. (The iterator only moves forward, so none is probed twice.)
C14_EveryRecordProbedEachCycle ==
    [][\A n \in Nodes :
          (liveIdx[n] # 0 /\ liveIdx'[n] = 0) => unprobed[n] = EmptyBag]_vars

-----------------------------------------------------------------------------
(* Claims about the bootstrap *)

\* the bootstrap of node n is followed from its start
Followed(n) == seedIdx[n] > 0

\* the seed-query phase of node n is over
SeedPhaseOver(n) == Followed(n) /\ bootPc[n] # "seeds"

\* the table of node n holds a record that start_peer_connection made
HasOutbound(n) == \E k \in 1..Len(connected_peers[n]) : ~connected_peers[n][k].inbound

\* C11: when the connection to every selected seed failed, the node does not
\* crash: after the seed-query phase it has no candidate, no record of its
\* own making, nothing left to try, and it is starting or has started its
\* jobs.
C11_NoSeedNoCrash ==
    \A n \in Nodes :
        (SeedPhaseOver(n) /\ replyLog[n] = <<>>) =>
            /\ bootPc[n] \in {"connect", "jobs"}
            /\ peers_from_seed[n] = {}
            /\ todo[n] = {}
            /\ ~HasOutbound(n)

\* the entries of a reply except the final one
AllButFinal(text) ==
    LET entries == ReplyEntries(text) IN {entries[i] : i \in 1..(Len(entries) - 1)}

\* C12: after the seed-query phase, the candidate set is the union of the
\* entries, the final one excepted, of the replies received; and a reply was
\* received from each selected seed that is up, whether or not a seed
\* selected before it failed.
C12_CandidatesAreUnionOfReplies ==
    \A n \in Nodes :
        SeedPhaseOver(n) =>
            /\ peers_from_seed[n] =
                  UNION {AllButFinal(replyLog[n][i]) : i \in 1..Len(replyLog[n])}
            /\ complete_peer_list[n].bound =>
                  complete_peer_list[n].list = peers_from_seed[n]
            /\ Len(replyLog[n]) =
                  Cardinality({i \in 1..Len(connect_seed_addr[n]) :
                                  connect_seed_addr[n][i] \in seedUp})

\* a node got two replies that offer different entries
C12_Witness ==
    \E n \in Nodes :
        /\ SeedPhaseOver(n)
        /\ Len(replyLog[n]) = 2
        /\ AllButFinal(replyLog[n][1]) \ AllButFinal(replyLog[n][2]) # {}
        /\ AllButFinal(replyLog[n][2]) \ AllButFinal(replyLog[n][1]) # {}

\* the text of an address names the port of node n
PortIs(address, n) == address[Len(address)] = NodePort(n)

\* C15: a record that start_peer_connection made for a candidate is in the
\* table only while the request is on its way to the candidate or in its
\* hands, or when the candidate accepted it and holds a record for the
\* requester: a candidate that dropped the request is not in the table.
C15_OutboundRecordOnlyIfAccepted ==
    \A n, m \in Nodes : \A k \in 1..Len(connected_peers[n]) :
        (~connected_peers[n][k].inbound /\ Listens(m, connected_peers[n][k].address)) =>
            \/ \E sess \in BagToSet(sessions) :
                  sess.to = m /\ PortIs(sess.msg.origin, n)
            \/ \E j \in 1..Len(connected_peers[m]) :
                  connected_peers[m][j].inbound /\ PortIs(connected_peers[m][j].address, n)

\* C16: every outbound handshake attempt ends and the node starts its jobs,
\* also when a candidate at MAX_DEGREE sends no reply: from some point on no
\* node is in the loop of its outbound handshakes or blocked in one of them
\* (a node leaves the loop only to start its jobs).
C16_BootstrapCompletes ==
    <>[](\A n \in Nodes : bootPc[n] \notin {"connect", "await"})

\* the host a reply reports for its requester: the host of its final entry
ReportedBy(text) == Split(FinalEntry(text), ":")[1]

\* C17 as claimed: after the seed-query phase the self-address of a node is
\* the one the first seed that replied reported; later replies do not change
\* it.
C17_FirstSeedWins ==
    \A n \in Nodes :
        (SeedPhaseOver(n) /\ replyLog[n] # <<>>) =>
            my_ip_address[n] = ReportedBy(replyLog[n][1])

\* C17 as amended: after the seed-query phase the self-address of a node is
\* the one the last seed that replied reported: every reply overwrites the
\* address held. With no reply it is the configured address.
C17_LastSeedWins ==
    \A n \in Nodes :
        SeedPhaseOver(n) =>
            my_ip_address[n] = IF replyLog[n] = <<>> THEN ConfiguredHost
                               ELSE ReportedBy(replyLog[n][Len(replyLog[n])])

\* two seeds replied and reported different hosts
C17_Witness ==
    \E n \in Nodes :
        /\ SeedPhaseOver(n)
        /\ Len(replyLog[n]) = 2
        /\ ReportedBy(replyLog[n][1]) # ReportedBy(replyLog[n][2])
        /\ my_ip_address[n] = ReportedBy(replyLog[n][2])

\* C20: where each node bootstraps once, the Membership Table of a node
\* that joins never holds two records with the same address, whether
\* start_peer_connection or new_connection made them.
C20_NoDuplicateRecords ==
    \A n \in Nodes : \A j, k \in 1..Len(connected_peers[n]) :
        j # k => connected_peers[n][j].address # connected_peers[n][k].address

\* every bootstrap is over and a node holds a record of its own outbound
\* handshake beside one a later node's request made
C20_Witness ==
    /\ \A n \in Nodes : bootPc[n] = "jobs"
    /\ sessions = EmptyBag
    /\ \E n \in Nodes :
          /\ Followed(n)
          /\ HasOutbound(n)
          /\ \E k \in 1..Len(connected_peers[n]) : connected_peers[n][k].inbound

\* C18: the digest of a message is in the Digest Cache of its originator
\* from the moment the message is on its way to any peer; so a message that
\* comes back to its originator is never past the test of the digest there,
\* and is never delivered or logged there.
C18_OwnMessageKnownBeforeSent ==
    /\ \A sess \in BagToSet(sessions) :
          sess.msg.type = "GOSSIP" =>
              /\ Digest(sess.msg) \in Range(message_list[sess.msg.origin])
              /\ sess.to = sess.msg.origin => sess.pc # "forward"
    /\ \A n \in Nodes : \A text \in BagToSet(delivered[n]) : text.origin # n

\* a neighbour of the originator took the message in and sent it on to all
\* its peers, the originator among them; all of it has been handled
C18_Witness ==
    \E text \in Payloads : \E n \in Nodes \ {text.origin} :
        /\ CopiesIn(text, delivered[n]) >= 1
        /\ \E k \in 1..Len(connected_peers[n]) :
              connected_peers[n][k].address = text.origin
        /\ sessions = EmptyBag
        /\ CopiesIn(text, delivered[text.origin]) = 0

\* C19: whatever the Membership Tables and the messages originated, the
\* flood terminates: from some point on no gossip message is in transit or
\* in the hands of a session, so no node forwards anything further.
C19_FloodTerminates == <>[](sessions = EmptyBag)

\* a flood over tables that are not symmetric has died out: a node delivered
\* a message that came from a node it holds no record for
C19_Witness ==
    \E text \in Payloads : \E n \in Nodes \ {text.origin} :
        /\ sessions = EmptyBag
        /\ gossipBudget = 0
        /\ CopiesIn(text, delivered[n]) >= 1
        /\ \A k \in 1..Len(connected_peers[n]) :
              connected_peers[n][k].address # text.origin
        /\ connected_peers[n] # <<>>

=============================================================================
